---- MODULE Spec2Model ----
(***************************************************************************)
(* A model of reactive.js: the module-level state tree and listener list,  *)
(* the template renderer (conditional, loop and value passes), the deep    *)
(* merge, the dotted-path getters and setters, and the input bindings.     *)
(*                                                                         *)
(* JavaScript objects live in a heap of addressed objects, so that two     *)
(* references to one object are distinguishable from two equal copies.     *)
(* Strings are sequences of atoms: an atom is one character, or one        *)
(* marker "${...}" (the only thing the four regular expressions key on).   *)
(* Characters are drawn from an alphabet without "$", "{" and "}", so no   *)
(* run of character atoms spells a marker.                                 *)
(***************************************************************************)
EXTENDS Integers, Sequences, FiniteSets, TLC

VARIABLES
  heap,       \* the JavaScript heap: a sequence of objects and arrays
  state,      \* the module variable `state`: a reference into the heap
  callerD,    \* the caller's initialData object of the last createStore
  dLit,       \* the contents callerD had when it was handed to createStore
  store,      \* the reference the last createStore returned to the caller
  listeners,  \* the module variable `listeners`: the bound input of each
  readyRegs,  \* number of DOMContentLoaded listeners createStore has added
  domReady,   \* whether DOMContentLoaded has fired
  els,        \* the [data-template] elements, in document order
  inputs,     \* the [data-bind] elements, in document order
  strict,     \* TRUE: the ES-module build (strict mode); FALSE: the script
  last,       \* what the last operation did (its kind, writes, renders, ...)
  ops         \* number of operations performed so far

vars == <<heap, state, callerD, dLit, store, listeners, readyRegs, domReady,
          els, inputs, strict, last, ops>>

---------------------------------------------------------------------------
(* Bounds of the model. *)

MaxOps == 4

---------------------------------------------------------------------------
(* JavaScript values.  Every value is a record of the same five fields:    *)
(* t the type tag, n a number (a number's value, a boolean as 0/1, a       *)
(* reference's address), s a string's atoms, f the own properties and e    *)
(* the elements of an object or array written as a literal.                *)

EmptyF == [k \in {} |-> 0]

Prim(t, n, s) == [t |-> t, n |-> n, s |-> s, f |-> EmptyF, e |-> <<>>]

Undef == Prim("undef", 0, <<>>)

Null == Prim("null", 0, <<>>)

\* An array hole (an index that was never assigned).
Hole == Prim("hole", 0, <<>>)

\* The outcome of an operation that raised a TypeError.
Thrown == Prim("throw", 0, <<>>)

Bool(b) == Prim("bool", IF b THEN 1 ELSE 0, <<>>)

Num(n) == Prim("num", n, <<>>)

Str(s) == Prim("str", 0, s)

Ref(a) == Prim("ref", a, <<>>)

Obj(f) == [t |-> "obj", n |-> 0, s |-> <<>>, f |-> f, e |-> <<>>]

Arr(e) == [t |-> "arr", n |-> 0, s |-> <<>>, f |-> EmptyF, e |-> e]

IsComposite(v) == v.t \in {"obj", "arr"}

IsNullish(v) == v.t \in {"undef", "null"}

\* String atoms: one character, or one marker "${" pre p[1] "." p[2] ... "}".
Ch(c) == [k |-> "c", c |-> c, pre |-> "", p |-> <<>>]

Mk(pre, p) == [k |-> "m", c |-> "", pre |-> pre, p |-> p]

Text(cs) == [i \in 1..Len(cs) |-> Ch(cs[i])]

S(cs) == Str(Text(cs))

---------------------------------------------------------------------------
(* Property names.  KeyOrder lists the names object literals are written   *)
(* with, in the order a literal lists them: for..in enumerates own keys    *)
(* in insertion order, and only objects written by the caller are          *)
(* enumerated (the patch of updateState and the mappings inside it).       *)

KeyOrder ==
  <<"a", "b", "c", "list", "user", "name", "active", "age", "items", "x", "secret">>

IndexKeys == {"0", "1", "2"}

IndexOf(key) == CASE key = "0" -> 0 [] key = "1" -> 1 [] OTHER -> 2

RECURSIVE KeysIn(_, _)
KeysIn(order, dom) ==
  IF order = <<>> THEN <<>>
  ELSE (IF Head(order) \in dom THEN <<Head(order)>> ELSE <<>>) \o KeysIn(Tail(order), dom)

RECURSIVE SetToSeq(_)
SetToSeq(X) ==
  IF X = {} THEN <<>>
  ELSE LET x == CHOOSE y \in X : TRUE IN <<x>> \o SetToSeq(X \ {x})

\* The own keys of an object, in enumeration order.
OwnKeys(o) ==
  LET listed == KeysIn(KeyOrder, DOMAIN o.f)
      named == {KeyOrder[i] : i \in 1..Len(KeyOrder)}
  IN listed \o SetToSeq(DOMAIN o.f \ named)

\* The values an object or array literal holds: its properties, then its elements.
Children(v) ==
  LET ks == OwnKeys(v) IN [i \in 1..Len(ks) |-> v.f[ks[i]]] \o v.e

---------------------------------------------------------------------------
(* The heap.  A literal (a tree of Obj and Arr) is laid out in preorder at *)
(* fresh addresses; Deep reads a heap value back as a literal.             *)

RECURSIVE LitSize(_), SizeSum(_)
SizeSum(cs) == IF cs = <<>> THEN 0 ELSE LitSize(Head(cs)) + SizeSum(Tail(cs))

LitSize(v) == IF IsComposite(v) THEN 1 + SizeSum(Children(v)) ELSE 0

\* The value a literal has once it is laid out after `base` objects.
Placed(v, base) == IF IsComposite(v) THEN Ref(base + 1) ELSE v

RECURSIVE Flatten(_, _), FlattenAll(_, _)
FlattenAll(cs, base) ==
  IF cs = <<>> THEN <<>>
  ELSE Flatten(Head(cs), base) \o FlattenAll(Tail(cs), base + LitSize(Head(cs)))

Flatten(v, base) ==
  IF ~IsComposite(v) THEN <<>>
  ELSE LET ks == OwnKeys(v)
           cs == Children(v)
           at(i) == Placed(cs[i], base + 1 + SizeSum(SubSeq(cs, 1, i - 1)))
           pos(k) == CHOOSE i \in 1..Len(ks) : ks[i] = k
           node == [v EXCEPT !.f = [k \in DOMAIN v.f |-> at(pos(k))],
                             !.e = [i \in 1..Len(v.e) |-> at(Len(ks) + i)]]
       IN <<node>> \o FlattenAll(cs, base + 1)

\* Writing a literal in the program: the heap grows by the literal's objects.
Build(h, lit) == [h |-> h \o Flatten(lit, Len(h)), v |-> Placed(lit, Len(h))]

RECURSIVE Deep(_, _)
Deep(h, v) ==
  IF v.t # "ref" THEN v
  ELSE LET o == h[v.n]
       IN [o EXCEPT !.f = [k \in DOMAIN o.f |-> Deep(h, o.f[k])],
                    !.e = [i \in 1..Len(o.e) |-> Deep(h, o.e[i])]]

\* state = initialData: the state is the caller's own object.
structuredCloneShared(h, v) == [h |-> h, v |-> v]

\* structuredClone: a deep copy at fresh addresses.
structuredClone(h, v) == Build(h, Deep(h, v))

RefsOf(o) ==
  {o.f[k].n : k \in {j \in DOMAIN o.f : o.f[j].t = "ref"}}
    \cup {o.e[i].n : i \in {j \in 1..Len(o.e) : o.e[j].t = "ref"}}

RECURSIVE Reach(_, _)
Reach(h, seen) ==
  LET more == seen \cup UNION {RefsOf(h[a]) : a \in seen}
  IN IF more = seen THEN seen ELSE Reach(h, more)

\* Garbage collection: the objects the roots reach, renumbered in order.
Rank(live, a) == Cardinality({b \in live : b <= a})

Moved(live, v) == IF v.t = "ref" THEN Ref(Rank(live, v.n)) ELSE v

Compact(h, roots) ==
  LET live == Reach(h, {r.n : r \in {q \in roots : q.t = "ref"}})
      old(i) == CHOOSE a \in live : Rank(live, a) = i
      moveObj(o) == [o EXCEPT !.f = [k \in DOMAIN o.f |-> Moved(live, o.f[k])],
                              !.e = [i \in 1..Len(o.e) |-> Moved(live, o.e[i])]]
  IN [h |-> [i \in 1..Cardinality(live) |-> moveObj(h[old(i)])], live |-> live]

---------------------------------------------------------------------------
(* Property access, assignment and coercion as JavaScript performs them.   *)
(* Inherited members (constructor, toString, ...) are outside the names    *)
(* the model's paths are written with.                                     *)

RECURSIVE LenSum(_)
LenSum(ss) == IF ss = <<>> THEN 0 ELSE Len(Head(ss)) + LenSum(Tail(ss))

\* Number of characters of an atom: a marker is "${", its content and "}".
AtomLen(a) ==
  IF a.k = "c" THEN Len(a.c)
  ELSE 3 + Len(a.pre) + LenSum(a.p) + (IF Len(a.p) > 1 THEN Len(a.p) - 1 ELSE 0)

RECURSIVE StrLen(_)
StrLen(s) == IF s = <<>> THEN 0 ELSE AtomLen(Head(s)) + StrLen(Tail(s))

\* s[i] of a string: exact while the characters up to i are character atoms
\* or i is the "$" that opens a leading marker.
CharAt(s, i) ==
  IF i + 1 <= Len(s) /\ \A j \in 1..(i + 1) : s[j].k = "c" /\ Len(s[j].c) = 1
    THEN Str(<<s[i + 1]>>)
  ELSE IF i = 0 /\ s # <<>> /\ s[1].k = "m" THEN Str(<<Ch("$")>>)
  ELSE Undef

\* value[key].  Reading a property of undefined or null raises a TypeError.
GetProp(h, v, key) ==
  CASE v.t = "ref" ->
         LET o == h[v.n]
         IN IF o.t = "arr" /\ key = "length" THEN Num(Len(o.e))
            ELSE IF o.t = "arr" /\ key \in IndexKeys
              THEN IF IndexOf(key) < Len(o.e) /\ o.e[IndexOf(key) + 1] # Hole
                     THEN o.e[IndexOf(key) + 1] ELSE Undef
            ELSE IF key \in DOMAIN o.f THEN o.f[key] ELSE Undef
    [] v.t = "str" ->
         IF key = "length" THEN Num(StrLen(v.s))
         ELSE IF key \in IndexKeys THEN CharAt(v.s, IndexOf(key))
         ELSE Undef
    [] v.t \in {"undef", "null", "hole", "throw"} -> Thrown
    [] OTHER -> Undef

\* target[key] = v.  On undefined or null a TypeError; on another primitive
\* a TypeError in strict mode and nothing at all in sloppy mode.  Keys are
\* names: assignments to an index or to length are outside the model's paths.
SetProp(h, target, key, v, isStrict) ==
  CASE target.t = "ref" ->
         [h |-> [h EXCEPT ![target.n].f =
                   [k \in DOMAIN h[target.n].f \cup {key} |->
                      IF k = key THEN v ELSE h[target.n].f[k]]],
          ok |-> TRUE]
    [] target.t \in {"undef", "null", "hole", "throw"} -> [h |-> h, ok |-> FALSE]
    [] OTHER -> [h |-> h, ok |-> ~isStrict]

\* ToBoolean.
Truthy(v) ==
  CASE v.t \in {"undef", "null", "hole", "throw"} -> FALSE
    [] v.t = "bool" -> v.n = 1
    [] v.t = "num" -> v.n # 0
    [] v.t = "str" -> v.s # <<>>
    [] OTHER -> TRUE

Digit(d) == CASE d = 0 -> "0" [] d = 1 -> "1" [] d = 2 -> "2" [] d = 3 -> "3"
              [] d = 4 -> "4" [] d = 5 -> "5" [] d = 6 -> "6" [] d = 7 -> "7"
              [] d = 8 -> "8" [] OTHER -> "9"

RECURSIVE Digits(_)
Digits(n) == IF n < 10 THEN <<Ch(Digit(n))>> ELSE Digits(n \div 10) \o <<Ch(Digit(n % 10))>>

\* ToString, as atoms.  An array is its elements joined by ","; null,
\* undefined and holes among them are empty.
RECURSIVE ToStr(_, _), JoinElems(_, _)
JoinElems(h, e) ==
  IF e = <<>> THEN <<>>
  ELSE (IF Head(e).t \in {"undef", "null", "hole"} THEN <<>> ELSE ToStr(h, Head(e)))
         \o (IF Len(e) > 1 THEN <<Ch(",")>> ELSE <<>>) \o JoinElems(h, Tail(e))

ToStr(h, v) ==
  CASE v.t = "str" -> v.s
    [] v.t = "num" -> Digits(v.n)
    [] v.t = "bool" -> IF v.n = 1 THEN Text(<<"t", "r", "u", "e">>)
                       ELSE Text(<<"f", "a", "l", "s", "e">>)
    [] v.t = "null" -> Text(<<"n", "u", "l", "l">>)
    [] v.t = "ref" /\ h[v.n].t = "arr" -> JoinElems(h, h[v.n].e)
    [] v.t = "ref" /\ h[v.n].t = "obj" ->
         Text(<<"[", "o", "b", "j", "e", "c", "t", " ", "O", "b", "j", "e", "c", "t", "]">>)
    [] OTHER -> Text(<<"u", "n", "d", "e", "f", "i", "n", "e", "d">>)

IsArray(h, v) == v.t = "ref" /\ h[v.n].t = "arr"

IsPlainObject(h, v) == v.t = "ref" /\ h[v.n].t = "obj"

---------------------------------------------------------------------------
(* Dotted paths.  A path is the sequence of its segments, as split('.')    *)
(* gives them.                                                             *)

\* The loop of evaluateExpression: stop with '' at undefined or null.
RECURSIVE EvalWalk(_, _, _)
EvalWalk(h, value, parts) ==
  IF parts = <<>> THEN value
  ELSE IF IsNullish(value) THEN Str(<<>>)
  ELSE EvalWalk(h, GetProp(h, value, Head(parts)), Tail(parts))

\* The walk with neither the test for undefined and null nor the try/catch.
RECURSIVE evaluateExpressionUnguarded(_, _, _)
evaluateExpressionUnguarded(h, root, parts) ==
  IF parts = <<>> \/ root = Thrown THEN root
  ELSE evaluateExpressionUnguarded(h, GetProp(h, root, Head(parts)), Tail(parts))

\* evaluateExpression: the walk inside try/catch; the catch returns ''.
evaluateExpression(h, root, parts) ==
  LET r == EvalWalk(h, root, parts) IN IF r = Thrown THEN Str(<<>>) ELSE r

\* The walk of getStateValue returning '' where it stops, as evaluateExpression does.
RECURSIVE getStateValueEmpty(_, _, _)
getStateValueEmpty(h, value, parts) ==
  IF parts = <<>> THEN value
  ELSE IF IsNullish(value) THEN Str(<<>>)
  ELSE getStateValueEmpty(h, GetProp(h, value, Head(parts)), Tail(parts))

\* getStateValue: the same walk, returning undefined where it stops.
RECURSIVE getStateValue(_, _, _)
getStateValue(h, value, parts) ==
  IF parts = <<>> THEN value
  ELSE IF IsNullish(value) THEN Undef
  ELSE getStateValue(h, GetProp(h, value, Head(parts)), Tail(parts))

\* An operation on the heap that completed, or raised a TypeError.
Done(h) == [h |-> h, ok |-> TRUE]

Raised(h) == [h |-> h, ok |-> FALSE]

\* if (current[part] === undefined || current[part] === null) current[part] = {}
MakeMissing(h, current, part, cur, isStrict) ==
  IF cur = Thrown THEN Raised(h)
  ELSE IF IsNullish(cur)
    THEN SetProp(Append(h, Obj(EmptyF)), current, part, Ref(Len(h) + 1), isStrict)
  ELSE Done(h)

\* setStateValue: create missing (undefined or null) intermediates, then
\* assign the last segment.  ok is FALSE when a TypeError was raised.
RECURSIVE setStateValue(_, _, _, _, _), SetDeeper(_, _, _, _, _)
SetDeeper(made, current, parts, value, isStrict) ==
  IF ~made.ok THEN made
  ELSE setStateValue(made.h, GetProp(made.h, current, Head(parts)), Tail(parts),
                     value, isStrict)

setStateValue(h, current, parts, value, isStrict) ==
  IF Len(parts) = 1 THEN SetProp(h, current, Head(parts), value, isStrict)
  ELSE SetDeeper(MakeMissing(h, current, Head(parts), GetProp(h, current, Head(parts)),
                             isStrict),
                 current, parts, value, isStrict)

\* if (!target[key]) target[key] = {}
EnsureObject(h, target, key, tv, isStrict) ==
  IF tv = Thrown THEN Raised(h)
  ELSE IF ~Truthy(tv)
    THEN SetProp(Append(h, Obj(EmptyF)), target, key, Ref(Len(h) + 1), isStrict)
  ELSE Done(h)

\* One iteration that assigns the source value whatever it is.
MergeKeyAssign(h, target, key, sv, isStrict) == SetProp(h, target, key, sv, isStrict)

\* mergeState(target, source): for each own key of source, merge a mapping
\* into target[key] (created as {} when falsy), assign anything else.
RECURSIVE mergeState(_, _, _, _), MergeKeys(_, _, _, _, _), MergeInto(_, _, _, _, _),
          MergeKey(_, _, _, _, _), MergeRest(_, _, _, _, _)
MergeInto(made, target, key, sv, isStrict) ==
  IF ~made.ok THEN made
  ELSE mergeState(made.h, GetProp(made.h, target, key), sv, isStrict)

\* One iteration of the for..in loop, for a key whose source value is sv.
MergeKey(h, target, key, sv, isStrict) ==
  IF IsPlainObject(h, sv)
    THEN MergeInto(EnsureObject(h, target, key, GetProp(h, target, key), isStrict),
                   target, key, sv, isStrict)
    ELSE SetProp(h, target, key, sv, isStrict)

MergeRest(r, target, source, keys, isStrict) ==
  IF ~r.ok THEN r ELSE MergeKeys(r.h, target, source, keys, isStrict)

MergeKeys(h, target, source, keys, isStrict) ==
  IF keys = <<>> THEN Done(h)
  ELSE MergeRest(MergeKey(h, target, Head(keys), GetProp(h, source, Head(keys)), isStrict),
                 target, source, Tail(keys), isStrict)

mergeState(h, target, source, isStrict) ==
  MergeKeys(h, target, source, OwnKeys(h[source.n]), isStrict)

---------------------------------------------------------------------------
(* The template markers and the four regular expressions.                  *)

Else == Mk("", <<"else">>)

Endif == Mk("", <<"endif">>)

Endloop == Mk("", <<"endloop">>)

If(p) == Mk("if:", p)

Loop(p) == Mk("loop:", p)

Item(field) == Mk("", <<"item", field>>)

Val(p) == Mk("", p)

\* singleValueRegex  \${([^}]*)}  matches every marker.
IsMarker(a) == a.k = "m"

\* conditionalRegex opens at  \${if:([^}]*)}
IsIf(a) == a.k = "m" /\ a.pre = "if:"

\* loopRegex opens at  \${loop:([^}]*)}  and closes at the first ${endloop}.
IsLoop(a) == a.k = "m" /\ a.pre = "loop:"

\* loopItemRegex  \${item\.([^}]*)}
IsItem(a) == a.k = "m" /\ a.pre = "" /\ Len(a.p) >= 2 /\ a.p[1] = "item"

RECURSIVE JoinDots(_)
JoinDots(p) ==
  IF Len(p) = 1 THEN p[1] ELSE p[1] \o "." \o JoinDots(Tail(p))

\* The property name loopItemRegex captures: everything after "item.".
ItemProperty(a) == JoinDots(Tail(a.p))

\* A marker's content, trimmed and split at the dots.
ExprParts(a) == IF a.pre = "" THEN a.p ELSE <<a.pre \o a.p[1]>> \o Tail(a.p)

\* The first index from `from` on that holds the marker a, or 0.
FirstIdx(t, a, from) ==
  LET X == {j \in from..Len(t) : t[j] = a}
  IN IF X = {} THEN 0 ELSE CHOOSE j \in X : \A k \in X : j <= k

\* One match of conditionalRegex opening at t[1].  The lazy true block ends
\* at the first ${else} that an ${endif} follows, or at the first ${endif};
\* the lazy false block ends at the first ${endif} after the ${else}.
CondMatch(t) ==
  LET e1 == FirstIdx(t, Endif, 2)
      l1 == FirstIdx(t, Else, 2)
  IN IF l1 # 0 /\ l1 < e1
       THEN [tb |-> SubSeq(t, 2, l1 - 1), fb |-> SubSeq(t, l1 + 1, e1 - 1),
             rest |-> SubSeq(t, e1 + 1, Len(t))]
       ELSE [tb |-> SubSeq(t, 2, e1 - 1), fb |-> <<>>,
             rest |-> SubSeq(t, e1 + 1, Len(t))]

\* The callback with its branches exchanged.
CondChoiceSwapped(isTrue, m) == IF isTrue THEN m.fb ELSE m.tb

\* The branch the conditional callback returns.
CondChoice(isTrue, m) == IF isTrue THEN m.tb ELSE m.fb

\* One conditional replaced: the chosen branch, then the rest of the text.
CondReplaced(isTrue, m, rest) == CondChoice(isTrue, m) \o rest

\* result.replace(conditionalRegex, ...): matches are found left to right
\* and the replacement text is not scanned again.
RECURSIVE CondPass(_, _, _), CondFrom(_, _, _, _)
CondFrom(h, root, t, m) ==
  CondReplaced(Truthy(evaluateExpression(h, root, t[1].p)), m, CondPass(h, root, m.rest))

CondPass(h, root, t) ==
  IF t = <<>> THEN <<>>
  ELSE IF IsIf(t[1]) /\ FirstIdx(t, Endif, 2) # 0 THEN CondFrom(h, root, t, CondMatch(t))
  ELSE <<t[1]>> \o CondPass(h, root, Tail(t))

\* A piece of rendered text, or the TypeError that ended the rendering.
Out(s) == [ok |-> TRUE, out |-> s]

Failed == [ok |-> FALSE, out |-> <<>>]

\* Text a followed by text b; an exception in a is raised before b is made.
Cat(a, b) == IF ~a.ok THEN a ELSE IF ~b.ok THEN b ELSE Out(a.out \o b.out)

\* The loopItemRegex callback: item[property] !== undefined ? item[property] : ''
\* where item[property] on a null or undefined item raises a TypeError.
ItemText(h, v) ==
  IF v = Thrown THEN Failed ELSE IF v # Undef THEN Out(ToStr(h, v)) ELSE Out(<<>>)

\* itemTemplate.replace(loopItemRegex, ...) for one item.
RECURSIVE ItemReplace(_, _, _)
ItemReplace(h, item, body) ==
  IF body = <<>> THEN Out(<<>>)
  ELSE Cat(IF IsItem(Head(body))
             THEN ItemText(h, GetProp(h, item, ItemProperty(Head(body))))
             ELSE Out(<<Head(body)>>),
           ItemReplace(h, item, Tail(body)))

\* array.map(...).join(''): map skips holes.
RECURSIVE ExpandItems(_, _, _)
ExpandItems(h, elems, body) ==
  IF elems = <<>> THEN Out(<<>>)
  ELSE Cat(IF Head(elems) = Hole THEN Out(<<>>) ELSE ItemReplace(h, Head(elems), body),
           ExpandItems(h, Tail(elems), body))

\* The loopRegex callback, for the value the array name resolved to.
LoopExpand(h, array, body) ==
  IF ~Truthy(array) \/ ~IsArray(h, array) \/ Len(h[array.n].e) = 0 THEN Out(<<>>)
  ELSE ExpandItems(h, h[array.n].e, body)

\* result.replace(loopRegex, ...).
RECURSIVE LoopPass(_, _, _), LoopFrom(_, _, _, _)
LoopFrom(h, root, t, j) ==
  Cat(LoopExpand(h, evaluateExpression(h, root, t[1].p), SubSeq(t, 2, j - 1)),
      LoopPass(h, root, SubSeq(t, j + 1, Len(t))))

LoopPass(h, root, t) ==
  IF t = <<>> THEN Out(<<>>)
  ELSE IF IsLoop(t[1]) /\ FirstIdx(t, Endloop, 2) # 0
    THEN LoopFrom(h, root, t, FirstIdx(t, Endloop, 2))
  ELSE Cat(Out(<<t[1]>>), LoopPass(h, root, Tail(t)))

\* The singleValueRegex callback: value !== undefined ? value : ''
ValueText(h, v) == IF v # Undef THEN ToStr(h, v) ELSE <<>>

\* result.replace(singleValueRegex, ...).
RECURSIVE ValuePass(_, _, _)
ValuePass(h, root, t) ==
  IF t = <<>> THEN <<>>
  ELSE (IF IsMarker(t[1])
          THEN ValueText(h, evaluateExpression(h, root, ExprParts(t[1])))
          ELSE <<t[1]>>)
         \o ValuePass(h, root, Tail(t))

\* The value pass over what the loop pass produced.
RenderLooped(h, root, looped) ==
  IF ~looped.ok THEN Failed ELSE Out(ValuePass(h, root, looped.out))

\* The conditional pass made after the loop pass.
RenderCondAfter(h, root, looped) ==
  IF ~looped.ok THEN Failed ELSE Out(ValuePass(h, root, CondPass(h, root, looped.out)))

\* The passes in the order loop, conditional, value.
RenderLoopFirst(h, root, template) ==
  RenderCondAfter(h, root, LoopPass(h, root, template))

\* The three passes of updateElement over a template.
Render(h, root, template) ==
  RenderLooped(h, root, LoopPass(h, root, CondPass(h, root, template)))

\* element.innerHTML = result, unless the rendering raised.
Rendered(el, r) ==
  IF r.ok THEN [ok |-> TRUE, set |-> TRUE, el |-> [el EXCEPT !.html = r.out]]
  ELSE [ok |-> FALSE, set |-> FALSE, el |-> el]

\* updateElement without the test for a missing template.
updateElementUnskipped(h, root, el) == Rendered(el, Render(h, root, el.orig))

\* An element is its innerHTML and its data-original attribute (has: the
\* attribute is present).  updateElement skips an element whose template is
\* missing or empty.
updateElement(h, root, el) ==
  IF ~el.has \/ el.orig = <<>> THEN [ok |-> TRUE, set |-> FALSE, el |-> el]
  ELSE Rendered(el, Render(h, root, el.orig))

---------------------------------------------------------------------------
(* The document: templated elements and bound inputs.                      *)

\* An event of one operation's trace: element i was handed to
\* updateElement ("el"), or listener i was called ("ls").
Ev(k, i) == [k |-> k, i |-> i]

\* The test of setInputValue: input.value !== value && value !== undefined
WritesInput(input, value) == Str(input.value) # value /\ value # Undef

\* input.value = value stores a string; null is stored as the empty string.
ShowValue(h, input, value) ==
  IF WritesInput(input, value)
    THEN [input EXCEPT !.value = IF value = Null THEN <<>> ELSE ToStr(h, value)]
    ELSE input

setInputValue(h, root, input) == ShowValue(h, input, getStateValue(h, root, input.path))

InputWrites(h, root, input) == WritesInput(input, getStateValue(h, root, input.path))

\* Assigning an element's innerHTML parses its markup anew: an input inside
\* it is a new node, with no value and no handler.  `done` is the set of
\* elements whose innerHTML was assigned.
Reparsed(ins, done) ==
  [i \in 1..Len(ins) |->
     IF ins[i].inside \in done THEN [ins[i] EXCEPT !.value = <<>>, !.handlers = 0]
     ELSE ins[i]]

\* A listener is the input it closed over: its place among the document's
\* inputs and whether that node is still in the document.  The listeners of
\* the nodes that were replaced keep refreshing the detached nodes.
Detached(ls, ins, done) ==
  [j \in 1..Len(ls) |->
     IF ins[ls[j].i].inside \in done THEN [ls[j] EXCEPT !.live = FALSE] ELSE ls[j]]

\* What a pass over the elements did: ok, the elements, the trace, the
\* elements whose innerHTML was assigned.
Pass(ok, es, trace) == [ok |-> ok, els |-> es, trace |-> trace, done |-> {}]

Traced(e, set, rest) ==
  [rest EXCEPT !.trace = <<e>> \o @, !.done = IF set THEN @ \cup {e.i} ELSE @]

\* document.querySelectorAll('[data-template]').forEach(updateElement): an
\* exception ends the forEach, leaving the later elements untouched.
RECURSIVE UpdateFrom(_, _, _, _), UpdateNext(_, _, _, _, _)
UpdateNext(h, root, es, i, r) ==
  IF ~r.ok THEN Pass(FALSE, es, <<Ev("el", i)>>)
  ELSE Traced(Ev("el", i), r.set, UpdateFrom(h, root, [es EXCEPT ![i] = r.el], i + 1))

UpdateFrom(h, root, es, i) ==
  IF i > Len(es) THEN Pass(TRUE, es, <<>>)
  ELSE UpdateNext(h, root, es, i, updateElement(h, root, es[i]))

\* One listener of bindInputs called: it refreshes the input it closed over.
Listened(j, wrote, rest) ==
  [rest EXCEPT !.trace = <<Ev("ls", j)>> \o @, !.iw = @ + (IF wrote THEN 1 ELSE 0)]

\* The inputs of the document after listener l has run setInputValue.
Refreshed(h, root, ins, l) ==
  IF l.live THEN [ins EXCEPT ![l.i] = setInputValue(h, root, @)] ELSE ins

\* listeners.forEach(fn => fn())
RECURSIVE RunListeners(_, _, _, _, _)
RunListeners(h, root, ins, ls, j) ==
  IF j > Len(ls) THEN [inputs |-> ins, trace |-> <<>>, iw |-> 0]
  ELSE Listened(j, ls[j].live /\ InputWrites(h, root, ins[ls[j].i]),
                RunListeners(h, root, Refreshed(h, root, ins, ls[j]), ls, j + 1))

\* The listeners called before the elements are rendered.
AfterListenersFirst(u, ls, l) ==
  [ok |-> TRUE, els |-> u.els, inputs |-> l.inputs, listeners |-> ls,
   trace |-> l.trace \o u.trace, iw |-> l.iw]

\* What renderAll did: ok, the elements, the inputs, the listeners, the
\* trace, the number of values written to inputs of the document.
AfterListeners(u, ls, l) ==
  [ok |-> TRUE, els |-> u.els, inputs |-> l.inputs, listeners |-> ls,
   trace |-> u.trace \o l.trace, iw |-> l.iw]

RenderAllAfter(h, root, ins, ls, u) ==
  IF ~u.ok
    THEN [ok |-> FALSE, els |-> u.els, inputs |-> Reparsed(ins, u.done),
          listeners |-> Detached(ls, ins, u.done), trace |-> u.trace, iw |-> 0]
  ELSE AfterListeners(u, Detached(ls, ins, u.done),
                      RunListeners(h, root, Reparsed(ins, u.done),
                                   Detached(ls, ins, u.done), 1))

\* renderAll: every templated element, then every listener.
renderAll(h, root, es, ins, ls) ==
  RenderAllAfter(h, root, ins, ls, UpdateFrom(h, root, es, 1))

\* The attribute set from the current markup on every scan.
ArchivedAlways(el) == [el EXCEPT !.has = TRUE, !.orig = el.html]

\* if (!el.hasAttribute('data-original')) el.setAttribute('data-original', el.innerHTML)
Archived(el) == IF el.has THEN el ELSE [el EXCEPT !.has = TRUE, !.orig = el.html]

\* What scanDOM did: ok, the elements, the elements whose innerHTML was
\* assigned.
Scanned(ok, es) == [ok |-> ok, els |-> es, done |-> {}]

ScanSet(i, set, rest) == [rest EXCEPT !.done = IF set THEN @ \cup {i} ELSE @]

\* scanDOM: archive each element's markup once, and render it.
RECURSIVE scanDOM(_, _, _, _), ScanNext(_, _, _, _, _)
ScanNext(h, root, es, i, r) ==
  IF ~r.ok THEN Scanned(FALSE, [es EXCEPT ![i] = r.el])
  ELSE ScanSet(i, r.set, scanDOM(h, root, [es EXCEPT ![i] = r.el], i + 1))

scanDOM(h, root, es, i) ==
  IF i > Len(es) THEN Scanned(TRUE, es)
  ELSE ScanNext(h, root, es, i, updateElement(h, root, Archived(es[i])))

\* input.addEventListener(event, ...): one more handler on the input.
Handled(input) == [input EXCEPT !.handlers = @ + 1]

\* addListener(() => setInputValue(input, property))
Listener(i) == [i |-> i, live |-> TRUE]

\* bindInputs: refresh each input of the document from the state, attach
\* one more handler for its event and push one more listener.
RECURSIVE bindInputs(_, _, _, _, _)
bindInputs(h, root, ins, ls, i) ==
  IF i > Len(ins) THEN [inputs |-> ins, listeners |-> ls]
  ELSE bindInputs(h, root, [ins EXCEPT ![i] = Handled(setInputValue(h, root, @))],
                  Append(ls, Listener(i)), i + 1)

\* scanDOM(); bindInputs(): an exception in scanDOM ends the caller.
Bound(sc, b) ==
  [els |-> sc.els, inputs |-> b.inputs, listeners |-> b.listeners, threw |-> FALSE]

ScanThenBind(h, root, sc, ins, ls) ==
  IF sc.ok
    THEN Bound(sc, bindInputs(h, root, Reparsed(ins, sc.done),
                              Detached(ls, ins, sc.done), 1))
    ELSE [els |-> sc.els, inputs |-> Reparsed(ins, sc.done),
          listeners |-> Detached(ls, ins, sc.done), threw |-> TRUE]

\* The DOMContentLoaded listeners createStore added, run in turn: each runs
\* scanDOM() and then bindInputs(); an exception in one ends that one only.
RECURSIVE RunReady(_, _, _, _, _, _), ReadyNext(_, _, _, _)
ReadyNext(h, root, b, n) ==
  [RunReady(h, root, b.els, b.inputs, b.listeners, n) EXCEPT !.threw = @ \/ b.threw]

RunReady(h, root, es, ins, ls, n) ==
  IF n = 0 THEN [els |-> es, inputs |-> ins, listeners |-> ls, threw |-> FALSE]
  ELSE ReadyNext(h, root, ScanThenBind(h, root, scanDOM(h, root, es, 1), ins, ls), n - 1)

\* What the handlers of one event did.
Handlers(h, es, ins, ls) ==
  [h |-> h, els |-> es, inputs |-> ins, listeners |-> ls, writes |-> 0, renders |-> 0,
   threw |-> FALSE, trace |-> <<>>, iw |-> 0]

HandlerRendered(r, rest) ==
  [rest EXCEPT !.writes = @ + 1, !.renders = @ + 1, !.threw = @ \/ ~r.ok,
               !.trace = r.trace \o @, !.iw = @ + r.iw]

HandlerRaised(rest) == [rest EXCEPT !.threw = TRUE]

\* The n handlers of the node the event fired on, run in turn: each does
\* setStateValue(property, input.value); renderAll().  `text` is the value
\* of that node, which may no longer be in the document after a render.
RECURSIVE RunHandlers(_, _, _, _, _, _, _, _, _), HandlerWrote(_, _, _, _, _, _, _, _, _),
          HandlerNext(_, _, _, _, _, _, _)
HandlerNext(h, root, path, text, n, isStrict, r) ==
  HandlerRendered(r, RunHandlers(h, root, r.els, r.inputs, r.listeners, path, text, n,
                                 isStrict))

HandlerWrote(w, root, es, ins, ls, path, text, n, isStrict) ==
  IF w.ok
    THEN HandlerNext(w.h, root, path, text, n, isStrict, renderAll(w.h, root, es, ins, ls))
    ELSE HandlerRaised(RunHandlers(w.h, root, es, ins, ls, path, text, n, isStrict))

RunHandlers(h, root, es, ins, ls, path, text, n, isStrict) ==
  IF n = 0 THEN Handlers(h, es, ins, ls)
  ELSE HandlerWrote(setStateValue(h, root, path, Str(text), isStrict),
                    root, es, ins, ls, path, text, n - 1, isStrict)

---------------------------------------------------------------------------
(* The inputs the operations are exercised with.                           *)

\* The markup of the document's templated elements:
\*   ${loop:items}<${item.name}>${endloop}
\*   ${if:user.active}${user.name}${else}N${endif}${x}<input data-bind="user.name">
\* The input's markup is one atom of the text.
InputTag == Ch("i")

TplLoop == <<Loop(<<"items">>), Ch("<"), Item("name"), Ch(">"), Endloop>>

TplUser == <<If(<<"user", "active">>), Val(<<"user", "name">>), Else, Ch("N"), Endif,
             Val(<<"x">>), InputTag>>

DocTemplates == <<TplLoop, TplUser>>

\* The document's inputs: the data-bind path, and the templated element the
\* input is inside of (0: none).
DocBindings ==
  << [path |-> <<"user", "name">>, inside |-> 0],
     [path |-> <<"x">>, inside |-> 0],
     [path |-> <<"user", "name">>, inside |-> 2] >>

\* Arguments of createStore.
InitialData ==
  { Obj(EmptyF),
    Obj([user |-> Obj([name |-> S(<<"a">>), active |-> Bool(TRUE), age |-> Num(25)]),
         items |-> Arr(<<Obj([name |-> S(<<"a">>)]), Obj([name |-> S(<<"b">>)])>>),
         x |-> Num(1)]),
    Obj([a |-> S(<<"s">>), list |-> Arr(<<Num(1), Num(2)>>), user |-> S(<<"u">>)]),
    Obj([items |-> Arr(<<Null>>), x |-> Num(1)]) }

\* Arguments of updateState.
Patches ==
  { Obj([a |-> Obj([b |-> Num(1)])]),
    Obj([a |-> Obj([c |-> Num(2)])]),
    Obj([list |-> Arr(<<Num(1), Num(2)>>)]),
    Obj([list |-> Arr(<<Num(3)>>)]),
    Obj([a |-> Obj([b |-> Num(1)]), list |-> Arr(<<Num(3)>>)]),
    Obj([user |-> Obj([active |-> Bool(FALSE)])]),
    Obj([items |-> Arr(<<Null>>), x |-> Num(2)]),
    Obj([items |-> Arr(<<Obj([name |-> Str(<<Val(<<"secret">>)>>)])>>),
         secret |-> S(<<"k">>)]),
    Obj([items |-> Arr(<<Obj([name |-> Str(<<If(<<"x">>), Ch("Y"), Endif>>)])>>)]) }

\* Assignments the caller makes through the reference createStore returned.
DirectWrites ==
  { [path |-> <<"user", "name">>, value |-> S(<<"z">>)],
    [path |-> <<"x">>, value |-> Num(2)] }

\* What the user types into an input before its event fires.
Typed == { Text(<<"b">>) }

---------------------------------------------------------------------------
(* The operations.                                                         *)

Quiet(op, arg) ==
  [op |-> op, arg |-> arg, writes |-> 0, renders |-> 0, threw |-> FALSE,
   trace |-> <<>>, iw |-> 0]

\* After an operation the garbage is collected and the references the
\* program and its caller hold are renumbered: the module's state, the
\* caller's initial data and the reference createStore returned.
Settled(gc, st, cd, sr) ==
  /\ heap' = gc.h
  /\ state' = Moved(gc.live, st)
  /\ callerD' = Moved(gc.live, cd)
  /\ store' = Moved(gc.live, sr)

Settle(h, st, cd, sr) == Settled(Compact(h, {st, cd, sr}), st, cd, sr)

Init ==
  /\ heap = <<Obj(EmptyF)>>
  /\ state = Ref(1)
  /\ callerD = Undef
  /\ dLit = Undef
  /\ store = Undef
  /\ listeners = <<>>
  /\ readyRegs = 0
  /\ domReady = FALSE
  /\ els = [i \in 1..Len(DocTemplates) |->
              [html |-> DocTemplates[i], has |-> FALSE, orig |-> <<>>]]
  /\ inputs = [i \in 1..Len(DocBindings) |->
                 [path |-> DocBindings[i].path, inside |-> DocBindings[i].inside,
                  value |-> <<>>, handlers |-> 0]]
  /\ strict \in BOOLEAN
  /\ last = Quiet("init", Undef)
  /\ ops = 0

\* The clone merged into the state there is, which stays the state.
ClonedOnto(d, c) == Settle(mergeState(c.h, state, c.v, FALSE).h, state, d, state)

\* state = structuredClone(initialData); return state
Cloned(d, c) == Settle(c.h, c.v, d, c.v)

Created(b) == Cloned(b.v, structuredClone(b.h, b.v))

\* createStore(initialData): the caller writes D, the state becomes its
\* clone, one more DOMContentLoaded listener is added (it can only fire if
\* the event is still to come) and the state reference is returned.
CreateStore(D) ==
  /\ ops < MaxOps
  /\ Created(Build(heap, D))
  /\ dLit' = D
  /\ readyRegs' = IF domReady THEN readyRegs ELSE readyRegs + 1
  /\ last' = Quiet("create", D)
  /\ ops' = ops + 1
  /\ UNCHANGED <<listeners, domReady, els, inputs, strict>>

ReadyDone(op, r) ==
  /\ els' = r.els
  /\ inputs' = r.inputs
  /\ listeners' = r.listeners
  /\ last' = [Quiet(op, Undef) EXCEPT !.threw = r.threw]

\* The document fires DOMContentLoaded, once.
DOMContentLoaded ==
  /\ ops < MaxOps
  /\ ~domReady
  /\ domReady' = TRUE
  /\ ReadyDone("ready", RunReady(heap, state, els, inputs, listeners, readyRegs))
  /\ ops' = ops + 1
  /\ UNCHANGED <<heap, state, callerD, dLit, store, readyRegs, strict>>

\* The page calls scanDOM(); bindInputs() again, as after loading markup.
Rescan ==
  /\ ops < MaxOps
  /\ domReady
  /\ ReadyDone("rescan", ScanThenBind(heap, state, scanDOM(heap, state, els, 1),
                                      inputs, listeners))
  /\ ops' = ops + 1
  /\ UNCHANGED <<heap, state, callerD, dLit, store, readyRegs, domReady, strict>>

\* What one call of renderAll leaves in the document and in `last`.
RenderDone(op, arg, r) ==
  /\ els' = r.els
  /\ inputs' = r.inputs
  /\ listeners' = r.listeners
  /\ last' = [Quiet(op, arg) EXCEPT !.renders = 1, !.threw = ~r.ok,
                                    !.trace = r.trace, !.iw = r.iw]

\* mergeState(state, newState); renderAll(): a TypeError in the merge
\* leaves the document as it was.
Merged(P, m) ==
  /\ Settle(m.h, state, callerD, store)
  /\ IF m.ok THEN RenderDone("update", P, renderAll(m.h, state, els, inputs, listeners))
     ELSE /\ last' = [Quiet("update", P) EXCEPT !.threw = TRUE]
          /\ UNCHANGED <<els, inputs, listeners>>

Patched(P, b) == Merged(P, mergeState(b.h, state, b.v, strict))

\* updateState(newState), the caller having written the patch P.
UpdateState(P) ==
  /\ ops < MaxOps
  /\ Patched(P, Build(heap, P))
  /\ ops' = ops + 1
  /\ UNCHANGED <<dLit, readyRegs, domReady, strict>>

\* window.renderAll(), called by the page.
RenderAll ==
  /\ ops < MaxOps
  /\ RenderDone("render", Undef, renderAll(heap, state, els, inputs, listeners))
  /\ ops' = ops + 1
  /\ UNCHANGED <<heap, state, callerD, dLit, store, readyRegs, domReady, strict>>

EventDone(i, text, r) ==
  /\ Settle(r.h, state, callerD, store)
  /\ els' = r.els
  /\ inputs' = r.inputs
  /\ listeners' = r.listeners
  /\ last' = [Quiet("event", [k |-> "input", i |-> i, text |-> text]) EXCEPT
                !.writes = r.writes, !.renders = r.renders, !.threw = r.threw,
                !.trace = r.trace, !.iw = r.iw]

\* The user sets input i to `text` and its event fires: every handler
\* bindInputs attached to that node is run.
InputEvent(i, text) ==
  /\ ops < MaxOps
  /\ EventDone(i, text, RunHandlers(heap, state, els,
                                    [inputs EXCEPT ![i].value = text], listeners,
                                    inputs[i].path, text, inputs[i].handlers, strict))
  /\ ops' = ops + 1
  /\ UNCHANGED <<dLit, readyRegs, domReady, strict>>

Assigned(holder, key, value) ==
  /\ holder.t = "ref"
  /\ heap' = SetProp(heap, holder, key, value, strict).h

\* The caller assigns through the returned reference: store.x = v or
\* store.user.name = v, where the objects on the way exist.
DirectWrite(w) ==
  /\ ops < MaxOps
  /\ store # Undef
  /\ Assigned(getStateValue(heap, store, SubSeq(w.path, 1, Len(w.path) - 1)),
              w.path[Len(w.path)], w.value)
  /\ last' = Quiet("write", w)
  /\ ops' = ops + 1
  /\ UNCHANGED <<state, callerD, dLit, store, listeners, readyRegs, domReady,
                 els, inputs, strict>>

Next ==
  \/ \E D \in InitialData : CreateStore(D)
  \/ DOMContentLoaded
  \/ Rescan
  \/ \E P \in Patches : UpdateState(P)
  \/ RenderAll
  \/ \E i \in 1..Len(DocBindings) : \E text \in Typed \cup {inputs[i].value} :
       InputEvent(i, text)
  \/ \E w \in DirectWrites : DirectWrite(w)

Spec == Init /\ [][Next]_vars

---------------------------------------------------------------------------
(* Properties.  `tree` is the state read back as a literal; the lookups    *)
(* below walk that literal and are independent of the program's walks.     *)

tree == Deep(heap, state)

Absent == Prim("absent", 0, <<>>)

\* The value a path names when only mappings can be walked through.
RECURSIVE MappingLookup(_, _)
MappingLookup(lit, p) ==
  IF p = <<>> THEN lit
  ELSE IF lit.t = "obj" /\ Head(p) \in DOMAIN lit.f
    THEN MappingLookup(lit.f[Head(p)], Tail(p))
  ELSE Absent

\* The value a path names when a sequence's and a string's length and
\* elements can be walked through as well.
RECURSIVE DataLookup(_, _)
DataLookup(lit, p) ==
  IF p = <<>> THEN lit
  ELSE CASE lit.t = "obj" /\ Head(p) \in DOMAIN lit.f ->
              DataLookup(lit.f[Head(p)], Tail(p))
         [] lit.t = "arr" /\ Head(p) = "length" ->
              DataLookup(Num(Len(lit.e)), Tail(p))
         [] lit.t = "arr" /\ Head(p) \in IndexKeys /\ IndexOf(Head(p)) < Len(lit.e) ->
              DataLookup(lit.e[IndexOf(Head(p)) + 1], Tail(p))
         [] lit.t = "str" /\ Head(p) = "length" ->
              DataLookup(Num(StrLen(lit.s)), Tail(p))
         [] lit.t = "str" /\ Head(p) \in IndexKeys /\ IndexOf(Head(p)) < Len(lit.s) ->
              DataLookup(Str(<<lit.s[IndexOf(Head(p)) + 1]>>), Tail(p))
         [] OTHER -> Absent

\* An empty or absent result of the resolver.
IsEmptyResult(v) == v \in {Undef, Str(<<>>)}

\* A step that was one call of the operation `op`.
Did(op) == ops' = ops + 1 /\ last'.op = op

\* Every element holding an archived template shows that template rendered
\* on the state e is rendered from.
ShowsRender(h, root, es) ==
  \A i \in 1..Len(es) :
    es[i].has => /\ Render(h, root, es[i].orig).ok
                 /\ es[i].html = Render(h, root, es[i].orig).out

---------------------------------------------------------------------------
\* C1: after createStore(D), whatever writes through the returned
\* reference, updateState calls and bound-input writes follow, the caller's
\* object D still has the contents it was handed over with, and no object
\* of the state tree is an object of D.
C1_CallerDataUnchanged ==
  callerD # Undef =>
    /\ Deep(heap, callerD) = dLit
    /\ Reach(heap, {callerD.n}) \cap Reach(heap, {state.n}) = {}

\* C1's case: a store was created from a non-empty D and a later write has
\* made the state differ from D.
C1_StateMovedAway ==
  /\ callerD # Undef
  /\ dLit # Obj(EmptyF)
  /\ last.op \in {"write", "update", "event"}
  /\ tree # dLit

\* The keys of the mapping P holds at k are in the state's value at k with
\* P's values, and the keys the state's mapping at k had before are kept.
MergedAt(old, new, P, k) ==
  /\ k \in DOMAIN new.f
  /\ \A j \in DOMAIN P.f[k].f : j \in DOMAIN new.f[k].f /\ new.f[k].f[j] = P.f[k].f[j]
  /\ (k \in DOMAIN old.f /\ old.f[k].t = "obj") =>
       \A j \in DOMAIN old.f[k].f \ DOMAIN P.f[k].f :
         j \in DOMAIN new.f[k].f /\ new.f[k].f[j] = old.f[k].f[j]

\* C2: for any state, updateState with a patch holding a mapping at key k
\* merges that mapping key by key into the state's value at k: afterwards
\* the state has every key of the patch's mapping under k, and the keys a
\* mapping at k had before are still there.
C2_NestedMerge ==
  [][Did("update") =>
       \A k \in DOMAIN last'.arg.f :
         last'.arg.f[k].t = "obj" =>
           MergedAt(tree, Deep(heap', state'), last'.arg, k)]_vars

\* C3: for any state, updateState with a patch holding an ordered sequence
\* at key k leaves exactly that sequence at k.
C3_ListReplaced ==
  [][Did("update") =>
       \A k \in DOMAIN last'.arg.f :
         last'.arg.f[k].t = "arr" =>
           k \in DOMAIN Deep(heap', state').f
             /\ Deep(heap', state').f[k] = last'.arg.f[k]]_vars

\* Conditional templates ${if:p}Y${else}N${endif} and ${if:p}Y${endif}.
CondPaths ==
  { <<"user", "active">>, <<"user", "name">>, <<"x">>, <<"a">>, <<"a", "b">>,
    <<"items">>, <<"list", "length">>, <<"secret">> }

WithElse(p) == <<If(p), Ch("Y"), Else, Ch("N"), Endif>>

NoElse(p) == <<If(p), Ch("Y"), Endif>>

\* Non-empty, non-zero, non-false.
IsTruthyValue(v) ==
  v \notin {Undef, Null, Bool(FALSE), Num(0), Str(<<>>)}

IsFalseOrAbsent(v) == v = Bool(FALSE) \/ IsEmptyResult(v)

\* C4: in every state a conditional template renders its first block when
\* the expression resolves to a truthy value, and its else block (nothing,
\* when there is no else part) when it resolves to false or is absent.
C4_Conditional ==
  \A p \in CondPaths :
    /\ Render(heap, state, WithElse(p)).ok /\ Render(heap, state, NoElse(p)).ok
    /\ IsTruthyValue(evaluateExpression(heap, state, p)) =>
         /\ Render(heap, state, WithElse(p)).out = <<Ch("Y")>>
         /\ Render(heap, state, NoElse(p)).out = <<Ch("Y")>>
    /\ IsFalseOrAbsent(evaluateExpression(heap, state, p)) =>
         /\ Render(heap, state, WithElse(p)).out = <<Ch("N")>>
         /\ Render(heap, state, NoElse(p)).out = <<>>

\* C4's case: user.active is false, x is non-zero and a is absent, and the
\* document's conditional element shows its else block.
C4_ElseShown ==
  /\ last.op = "update"
  /\ MappingLookup(tree, <<"user", "active">>) = Bool(FALSE)
  /\ MappingLookup(tree, <<"x">>) = Num(1)
  /\ MappingLookup(tree, <<"a">>) = Absent
  /\ els[2].has
  /\ els[2].html = <<Ch("N"), Ch("1"), InputTag>>

\* The text one item contributes to <${item.name}>: its field, or nothing.
ItemField(e, field) ==
  IF e.t = "obj" /\ field \in DOMAIN e.f THEN ToStr(heap, e.f[field]) ELSE <<>>

RECURSIVE LoopText(_)
LoopText(elems) ==
  IF elems = <<>> THEN <<>>
  ELSE <<Ch("<")>> \o ItemField(Head(elems), "name") \o <<Ch(">")>> \o LoopText(Tail(elems))

\* C5: in every state the template ${loop:items}<${item.name}>${endloop}
\* renders one copy of the body per element, in order, with the element's
\* field in place of the item marker (nothing when the field is absent), and
\* renders as the empty string when items is absent, empty or no sequence.
C5_Loop ==
  /\ Render(heap, state, TplLoop).ok
  /\ Render(heap, state, TplLoop).out =
       IF MappingLookup(tree, <<"items">>).t = "arr"
         THEN LoopText(MappingLookup(tree, <<"items">>).e)
         ELSE <<>>

\* C6: after a renderAll pass every templated element's content is its
\* pristine template rendered on the current state, and a second pass with
\* no state change in between leaves the content as it is.
C6_RenderIdempotent ==
  [][/\ Did("render") => ShowsRender(heap', state', els')
     /\ (Did("render") /\ last.op = "render") => els' = els]_vars

\* Dotted paths the resolver is asked for.
ProbePaths ==
  { <<"nope">>, <<"nope", "x">>, <<"user", "name">>, <<"user", "zip">>,
    <<"user", "zip", "code">>, <<"user", "name", "0">>, <<"a", "b">>, <<"a", "b", "c">>,
    <<"a", "length">>, <<"x", "y">>, <<"items", "length">>, <<"items", "0", "name">>,
    <<"items", "0", "name", "x">>, <<"items", "name">>, <<"list", "2">>, <<"list", "0">> }

C8_OneWriteOneRender ==
  [][(/\ Did("event")
      /\ inputs[last'.arg.i].handlers >= 1
      /\ last'.arg.text = inputs[last'.arg.i].value
      /\ getStateValue(heap, state, inputs[last'.arg.i].path) = Str(last'.arg.text))
       => last'.writes = 1 /\ last'.renders = 1]_vars

\* C9: in every reachable state each of the document's templates renders
\* without raising, and a renderAll pass completes.
C9_RenderNeverThrows ==
  /\ \A i \in 1..Len(DocTemplates) : Render(heap, state, DocTemplates[i]).ok
  /\ last.op = "render" => ~last.threw

\* C10: each updateState call completes the merge and then makes exactly
\* one renderAll pass in which every templated element is handed to
\* updateElement; afterwards every templated element's content is its
\* pristine template rendered on the merged state.
C10_UpdateRendersAll ==
  [][Did("update") =>
       /\ ~last'.threw
       /\ last'.renders = 1
       /\ \A i \in 1..Len(els) : \E j \in 1..Len(last'.trace) : last'.trace[j] = Ev("el", i)
       /\ ShowsRender(heap', state', els')]_vars

\* C11: the reference createStore returned is the live state: after a
\* write through it followed by renderAll(), every templated element's
\* content is its pristine template rendered on the mutated state.
C11_LiveReference ==
  [][/\ Did("write") =>
          /\ store' = state'
          /\ getStateValue(heap', state', last'.arg.path) = last'.arg.value
     /\ (last.op = "write" /\ Did("render")) => ShowsRender(heap', state', els')]_vars

\* The calls tr of one renderAll pass over nE elements and nL listeners:
\* the elements in document order, then, only if every element was handed
\* over, the listeners in registration order.
InPassOrder(tr, nE, nL) ==
  \E k \in 0..nE :
    \/ tr = [j \in 1..k |-> Ev("el", j)]
    \/ k = nE /\ tr = [j \in 1..(nE + nL) |->
                         IF j <= nE THEN Ev("el", j) ELSE Ev("ls", j - nE)]

\* A step that made exactly one renderAll pass.
OnePass == ops' = ops + 1 /\ last'.renders = 1

\* C12: within one renderAll pass the templated elements are rendered in
\* document order and every listener runs after all of them, in
\* registration order; when a listener runs, every templated element shows
\* its template rendered on the current state.
C12_ElementsThenListeners ==
  [][OnePass =>
       /\ InPassOrder(last'.trace, Len(els), Len(listeners'))
       /\ (\E j \in 1..Len(last'.trace) : last'.trace[j].k = "ls") =>
            ShowsRender(heap', state', els')]_vars

\* C12's case: a pass over both elements that went on to call three or more
\* listeners.
C12_PassWithListeners ==
  /\ last.op \in {"update", "render"}
  /\ ~last.threw
  /\ Len(listeners) >= 3
  /\ Len(last.trace) = Len(els) + Len(listeners)

\* C13: a further createStore(D2) makes the state an independent copy of D2
\* with nothing inherited from the previous state: the state read back is
\* D2, it is what is returned, it shares no object with the caller's D2, and
\* a path D2 does not hold resolves to nothing.
C13_ReinitResets ==
  [][Did("create") =>
       /\ Deep(heap', state') = last'.arg
       /\ store' = state'
       /\ Reach(heap', {callerD'.n}) \cap Reach(heap', {state'.n}) = {}
       /\ \A p \in ProbePaths :
            DataLookup(last'.arg, p) = Absent =>
              /\ IsEmptyResult(evaluateExpression(heap', state', p))
              /\ getStateValue(heap', state', p) = Undef]_vars

\* C13's case: the store was created again from {} while the document
\* still shows the previous state's user name.
C13_CreatedAgain ==
  /\ last.op = "create"
  /\ tree = Obj(EmptyF)
  /\ els[2].has
  /\ els[2].html = <<Ch("a"), Ch("1"), InputTag>>

\* Input i of the document has a trigger handler and a refresh listener.
IsBound(ins, ls, i) ==
  /\ ins[i].handlers >= 1
  /\ \E j \in 1..Len(ls) : ls[j].i = i /\ ls[j].live

\* C14: a bound input, also one inside a templated element, is still bound
\* after a renderAll pass: the input in the document has its trigger
\* handler and its refresh listener.
C14_BoundAcrossRenders ==
  [][OnePass =>
       \A i \in 1..Len(inputs) :
         IsBound(inputs, listeners, i) => IsBound(inputs', listeners', i)]_vars

\* The demo's conditional ${if:user.age > 18}Y${else}N${endif}: the
\* expression split at its dots.
TplAdult == WithElse(<<"user", "age > 18">>)

\* C15: the conditional on the comparison user.age > 18 renders its first
\* block when user.age is a number greater than 18, and its else block
\* otherwise.
C15_ComparisonConditional ==
  Render(heap, state, TplAdult).out =
    IF MappingLookup(tree, <<"user", "age">>).t = "num"
         /\ MappingLookup(tree, <<"user", "age">>).n > 18
      THEN <<Ch("Y")>> ELSE <<Ch("N")>>

\* C16: after any sequence of scans, renders, updates and input events the
\* archived template of every templated element is the markup the element
\* had when it was first scanned.
C16_PristineTemplate ==
  \A i \in 1..Len(els) : els[i].has => els[i].orig = DocTemplates[i]

\* C16's case: the document was scanned again after its elements had been
\* rendered, and an element shows content that differs from its template.
C16_ScannedAgain ==
  /\ last.op = "rescan"
  /\ \A i \in 1..Len(els) : els[i].has /\ els[i].html # els[i].orig

\* Dotted paths setStateValue is asked to write.
SetPaths == { <<"x">>, <<"user", "name">>, <<"a", "b">>, <<"nope", "deep", "er">> }

\* The write w completed and the path reads back as v.
WroteThrough(w, p, v) == w.ok /\ getStateValue(w.h, state, p) = v

\* C17: for every state, path p and value v, setStateValue(p, v) replaces
\* missing and non-mapping intermediate values by fresh mappings and
\* assigns v without raising, so that getStateValue(p) returns v afterwards.
C17_DestructiveCreate ==
  \A p \in SetPaths :
    WroteThrough(setStateValue(heap, state, p, S(<<"v">>), strict), p, S(<<"v">>))

\* A value that is there and is no mapping: a primitive or a sequence.
IsNonMapping(lit, k) == k \in DOMAIN lit.f /\ lit.f[k].t \in {"str", "num", "bool", "arr"}

\* C18: when the patch holds a mapping at key k and the state holds a
\* non-mapping value at k, updateState does not raise and leaves at k a
\* mapping with exactly the keys of the patch's mapping.
C18_MergeOverNonMapping ==
  [][Did("update") =>
       \A k \in DOMAIN last'.arg.f :
         (last'.arg.f[k].t = "obj" /\ IsNonMapping(tree, k)) =>
           /\ ~last'.threw
           /\ Deep(heap', state').f[k].t = "obj"
           /\ DOMAIN Deep(heap', state').f[k].f = DOMAIN last'.arg.f[k].f]_vars

\* The path without its last segment.
Front(p) == SubSeq(p, 1, Len(p) - 1)

\* The walk along p stops early: the value before the last segment is
\* undefined or null.
StopsEarly(h, root, p) == Len(p) > 1 /\ IsNullish(getStateValue(h, root, Front(p)))

\* C19 as stated: for every dotted path, getStateValue and
\* evaluateExpression return the same result, also when the first, an
\* intermediate or the last segment is missing or null.
C19_SameTraversal ==
  \A p \in ProbePaths : getStateValue(heap, state, p) = evaluateExpression(heap, state, p)

\* C19, amended: getStateValue and evaluateExpression return the same result
\* for every dotted path whose walk reaches the last segment; when the value
\* before the last segment is undefined or null, getStateValue returns
\* undefined and evaluateExpression returns the empty string.
C19_SameUnlessStoppedEarly ==
  \A p \in ProbePaths :
    IF StopsEarly(heap, state, p)
      THEN /\ getStateValue(heap, state, p) = Undef
           /\ evaluateExpression(heap, state, p) = Str(<<>>)
      ELSE getStateValue(heap, state, p) = evaluateExpression(heap, state, p)

\* C19's case: both walks return the name of a present user and undefined
\* for its missing last segment; below the missing segment one returns
\* undefined and the other the empty string.
C19_BothWalked ==
  /\ getStateValue(heap, state, <<"user", "name">>) = S(<<"a">>)
  /\ evaluateExpression(heap, state, <<"user", "name">>) = S(<<"a">>)
  /\ getStateValue(heap, state, <<"user", "zip">>) = Undef
  /\ evaluateExpression(heap, state, <<"user", "zip">>) = Undef
  /\ getStateValue(heap, state, <<"user", "zip", "code">>) = Undef
  /\ evaluateExpression(heap, state, <<"user", "zip", "code">>) = Str(<<>>)

\* What an input displays once the value v was written to it.
Displayed(h, v) == IF v = Null THEN <<>> ELSE ToStr(h, v)

\* The state value at the input's path is defined and is not what the
\* input displays.
NeedsRefresh(h, root, input) ==
  /\ getStateValue(h, root, input.path) # Undef
  /\ Displayed(h, getStateValue(h, root, input.path)) # input.value

\* C20: the refresh step writes a bound input's displayed value exactly when
\* the state value at its path is defined and differs from what the input
\* displays, whatever the value's type; a render that follows a render with
\* no state change in between writes to no input.
C20_RefreshGuard ==
  [][/\ \A i \in 1..Len(inputs) :
          InputWrites(heap, state, inputs[i]) <=> NeedsRefresh(heap, state, inputs[i])
     /\ (Did("render") /\ last.op = "render") => last'.iw = 0]_vars

\* The listeners of the registry that refresh input i of the document.
ListenersOf(ls, i) == { j \in 1..Len(ls) : ls[j].i = i /\ ls[j].live }

\* C21: after any sequence of createStore calls, document-ready events and
\* bind passes, every bound input has exactly one trigger handler and
\* exactly one listener in the registry.
C21_OneBindingPerElement ==
  \A i \in 1..Len(inputs) :
    inputs[i].handlers >= 1 =>
      /\ inputs[i].handlers = 1
      /\ Cardinality(ListenersOf(listeners, i)) = 1

\* The pass whose calls are tr went on after element i of nE elements: to
\* the next element, or after the last element to each of the nL listeners.
WentOnAfter(tr, i, nE, nL) ==
  IF i < nE THEN \E j \in 1..Len(tr) : tr[j] = Ev("el", i + 1)
  ELSE \A l \in 1..nL : \E j \in 1..Len(tr) : tr[j] = Ev("ls", l)

\* C22: in a renderAll pass a templated element without an archived
\* template keeps its content exactly as it was, and the pass goes on after
\* it to the next element and, after the last element, to every listener.
C22_MissingTemplateSkipped ==
  [][OnePass =>
       \A i \in 1..Len(els) :
         ~els[i].has =>
           /\ els'[i] = els[i]
           /\ (\E j \in 1..Len(last'.trace) : last'.trace[j] = Ev("el", i)) =>
                WentOnAfter(last'.trace, i, Len(els), Len(listeners'))]_vars

\* C22's case: a scan that raised at the first element left the second
\* without an archived template; the next pass rendered the first, skipped
\* the second leaving its markup, and completed.
C22_SkippedInPass ==
  /\ last.op \in {"update", "render"}
  /\ ~last.threw
  /\ els[1].has /\ ~els[2].has
  /\ els[2].html = DocTemplates[2]
  /\ last.trace = <<Ev("el", 1), Ev("el", 2)>>

\* A loop whose body holds a conditional on p, as the demo's to-do list
\* does, and the loop with one block in the conditional's place.
LoopWithCond(p) ==
  <<Loop(<<"items">>), Ch("<"), If(p), Ch("Y"), Else, Ch("N"), Endif,
    Item("name"), Ch(">"), Endloop>>

LoopWithBlock(b) == <<Loop(<<"items">>), Ch("<"), Ch(b), Item("name"), Ch(">"), Endloop>>

\* The state's only item has the text ${if:x}Y${endif} as its name.
HoldsCondText ==
  MappingLookup(tree, <<"items">>) =
    Arr(<<Obj([name |-> Str(<<If(<<"x">>), Ch("Y"), Endif>>)])>>)

PassesCompleted == ops' = ops + 1 /\ last'.renders >= 1 /\ ~last'.threw

\* C24: after a step whose renderAll passes completed, every input that was
\* bound displays the value the state holds at its path, when that value is
\* defined; so two inputs bound to one path display the same.
C24_BindingConvergence ==
  [][PassesCompleted =>
       \A i \in 1..Len(inputs) :
         (/\ IsBound(inputs, listeners, i)
          /\ getStateValue(heap', state', inputs[i].path) # Undef) =>
           inputs'[i].value = Displayed(heap', getStateValue(heap', state', inputs[i].path))]_vars

\* C24 for the inputs that are not inside a templated element.
C24_OutsideTemplates ==
  [][PassesCompleted =>
       \A i \in 1..Len(inputs) :
         (/\ IsBound(inputs, listeners, i)
          /\ inputs[i].inside = 0
          /\ getStateValue(heap', state', inputs[i].path) # Undef) =>
           inputs'[i].value = Displayed(heap', getStateValue(heap', state', inputs[i].path))]_vars

\* The caller's patch, built at b.v, and the state have an object in common
\* once the merge m was made.
PatchShares(b, m) == m.ok /\ Reach(m.h, {b.v.n}) \cap Reach(m.h, {state.n}) # {}

SharesAfterMerge(b) == PatchShares(b, mergeState(b.h, state, b.v, strict))

\* C25: after updateState(patch) no object of the state tree is an object
\* of the caller's patch, so that a later change of one cannot show in the
\* other.
C25_PatchNotShared ==
  [][Did("update") => ~SharesAfterMerge(Build(heap, last'.arg))]_vars

\* The template T renders the same on the state and on the state after the
\* write w.
SameRender(w, T) == Render(heap, state, T) = Render(w.h, state, T)

\* C26: the document's templates name the paths items, item.name,
\* user.active, user.name and x; a state that differs from the current one
\* only at the path secret, which no template names, renders every template
\* to the same output, also when an item's field holds the text ${secret}.
C26_OnlyNamedPaths ==
  \A i \in 1..Len(DocTemplates) :
    SameRender(SetProp(heap, state, "secret", S(<<"q">>), strict), DocTemplates[i])

\* The mapping new is the mapping old with nothing removed, nothing added
\* or changed at a key the patch P does not hold, and the same below every
\* key at which both old and P hold a mapping.
RECURSIVE MergeFrame(_, _, _)
MergeFrame(old, new, P) ==
  /\ \A k \in DOMAIN old.f : k \in DOMAIN new.f
  /\ \A k \in DOMAIN new.f \ DOMAIN P.f : k \in DOMAIN old.f /\ new.f[k] = old.f[k]
  /\ \A k \in DOMAIN old.f \cap DOMAIN P.f :
       (old.f[k].t = "obj" /\ P.f[k].t = "obj" /\ new.f[k].t = "obj") =>
         MergeFrame(old.f[k], new.f[k], P.f[k])

\* C27: updateState(patch) leaves unchanged every key of the state, at
\* every nesting level, that the patch does not mention; it adds and changes
\* only keys the patch holds, and removes no key.
C27_MergeFrame ==
  [][Did("update") => MergeFrame(tree, Deep(heap', state'), last'.arg)]_vars

\* C27's case: the patch {user: {active: false}} was merged into a state
\* whose user also has a name and an age, and whose x is 1: they are kept.
C27_SiblingsKept ==
  /\ last.op = "update"
  /\ last.arg = Obj([user |-> Obj([active |-> Bool(FALSE)])])
  /\ MappingLookup(tree, <<"user", "active">>) = Bool(FALSE)
  /\ MappingLookup(tree, <<"user", "name">>) = S(<<"a">>)
  /\ MappingLookup(tree, <<"user", "age">>) = Num(25)
  /\ MappingLookup(tree, <<"x">>) = Num(1)

====
